---- MODULE Spec2Model ----
(***************************************************************************)
(* Model of instaloader's command line driver, src/instaloader/__main__.py *)
(* : main(), _main() and filterstr_to_filterfunc().                        *)
(*                                                                         *)
(* Strings that the code inspects character by character (the targets) are *)
(* sequences of one-character strings, so that rstrip('/'), endswith(),    *)
(* target[0] and target[1:] are computed as the code computes them.        *)
(* Calls into the rest of the package (downloads, login, session files)    *)
(* are steps whose outcome (return or raise) the environment chooses.      *)
(* Of the lines written with context.log, those of the startup (lines      *)
(* 72-90) and of the shutdown (lines 164-170) are in the history; the      *)
(* progress lines written while a target is handled are not.               *)
(***************************************************************************)
EXTENDS Integers, Sequences, FiniteSets, TLC

\* Longest target list given on the command line.
MaxTargets == 2
\* Longest target list tried together with every combination of options.
MaxTargetsWithOptions == 2
\* Most bare names in one filter expression.
MaxNames == 2

VARIABLES
    pc,                    \* position in main()/_main()
    exit,                  \* how the process ended: "running" until it has
    targetlist,            \* args.profile
    username,              \* args.login (lowercased), "None" when absent
    password,              \* args.password, "None" when absent
    stories,               \* args.stories
    stories_only,          \* args.stories_only
    profile_pic,           \* not args.no_profile_pic
    profile_pic_only,      \* args.profile_pic_only
    fast_update,           \* args.fast_update
    post_filter_str,       \* args.post_filter
    storyitem_filter_str,  \* args.storyitem_filter
    post_filter,           \* _main's post_filter: NoFunc or a compiled filter
    storyitem_filter,      \* _main's storyitem_filter
    is_logged_in,          \* instaloader.context.is_logged_in
    idx,                   \* index of the next element of targetlist
    profiles,              \* _main's set of profiles
    pending,               \* elements the loop over profiles has not visited
    cur,                   \* profile whose anonymous retry is running, or <<>>
    errlog,                \* the context's error records, in order
    calls,                 \* history of the calls made and of the exceptions raised
    given,                 \* what each call of download_profile was given, in order
    taken,                 \* for each target handled, the branch of lines 96-138 taken
    c_in,                  \* filter compiler run alone: its input
    c_out                  \* filter compiler run alone: its outcome

vars == <<pc, exit, targetlist, username, password, stories, stories_only,
          profile_pic, profile_pic_only, fast_update, post_filter_str, storyitem_filter_str, post_filter, storyitem_filter,
          is_logged_in, idx, profiles, pending, cur, errlog, calls, given,
          taken, c_in, c_out>>

inputs == <<targetlist, username, password, stories_only,
            profile_pic, profile_pic_only, fast_update,
            post_filter_str, storyitem_filter_str>>

compilerVars == <<c_in, c_out>>

\* What only the loop over targetlist writes.
loopVars == <<idx, profiles, taken>>

-----------------------------------------------------------------------------
(* Strings *)

\* str.rstrip('/')
RECURSIVE rstrip(_)
rstrip(s) ==
    IF Len(s) > 0 /\ s[Len(s)] = "/" THEN rstrip(SubSeq(s, 1, Len(s) - 1)) ELSE s

\* str.endswith(suffix)
endswith(s, suffix) ==
    /\ Len(s) >= Len(suffix)
    /\ SubSeq(s, Len(s) - Len(suffix) + 1, Len(s)) = suffix

JSON == <<".", "j", "s", "o", "n">>
JSON_XZ == <<".", "j", "s", "o", "n", ".", "x", "z">>
FEED == <<":", "f", "e", "e", "d">>
STORIES == <<":", "s", "t", "o", "r", "i", "e", "s">>
SAVED == <<":", "s", "a", "v", "e", "d">>
FEED_ALL == <<":", "f", "e", "e", "d", "-", "a", "l", "l">>
FEED_LIKED == <<":", "f", "e", "e", "d", "-", "l", "i", "k", "e", "d">>

\* The paths that are regular files while the program runs.
FILES == { <<"@", "f">> \o JSON_XZ }

\* os.path.isfile
isfile(path) == path \in FILES

\* The targets a command line is made of.
RawTargets ==
    { <<"a">>, <<"a", "/">>, <<"@", "a">>, <<"@", "b">>, <<"#", "t">>,
      FEED, STORIES, SAVED,
      <<"@", "f">> \o JSON_XZ, <<"n">> \o JSON,
      <<>>, <<"/">>,
      FEED_ALL, FEED_LIKED }

SeqsUpTo(S, n) == UNION { [1..k -> S] : k \in 0..n }

\* One target of each kind of handling: the targets left out are handled as
\* '#t' (the three special targets), as 'a' ('n.json'), as '' ('/') or as
\* ':feed-all' (':feed-liked') is.
CoreTargets ==
    { <<"a">>, <<"a", "/">>, <<"@", "a">>, <<"@", "b">>, <<"#", "t">>,
      <<"@", "f">> \o JSON_XZ, <<>>, FEED_ALL }

\* Every target alone, and the lists of at most MaxTargets core targets.
TargetLists == { <<t>> : t \in RawTargets } \cup SeqsUpTo(CoreTargets, MaxTargets)

\* The targets whose handling reads an option besides the login: a profile
\* (stories and filters), a saved structure (filters), and a removed
\* target, which main() rejects before any option is used.
OptionTargets == { <<"a">>, <<"@", "f">> \o JSON_XZ, FEED_ALL }

\* The accounts a followee list may name.
Accounts == { <<"a">>, <<"b">> }

\* The lists of followees get_followees may return for a profile: no
\* account follows itself.
FolloweeSets(name) == SUBSET (Accounts \ {name})


-----------------------------------------------------------------------------
(* filterstr_to_filterfunc *)

\* A filter string, as far as the compiler looks at it: whether it is text
\* that ast.parse accepts as an expression, as a statement only, or not at
\* all, and the Name nodes of its syntax tree in the order NodeTransformer
\* visits them, each with its id and its context.
NoFilter == [kind |-> "none", names |-> <<>>]

Ids == {"viewer_has_liked", "is_video", "datetime", "x"}

\* Contexts of a Name inside an expression: a read, or the target of an
\* assignment expression or of a comprehension.
ExprNodes == [id : Ids, ctx : {"Load", "Store"}]
\* Inside a statement a Name may also be the target of del.
StmtNodes == [id : Ids, ctx : {"Load", "Store", "Del"}]


FilterStrs ==
    [kind : {"expression"}, names : SeqsUpTo(ExprNodes, MaxNames)]
    \cup [kind : {"statement"}, names : SeqsUpTo(StmtNodes, MaxNames) \ {<<>>}]
    \cup [kind : {"malformed"}, names : {<<>>}]

ItemTypes == {"Post", "StoryItem"}

\* hasattr(item_type, name)
hasattr(item_type, name) ==
    CASE item_type = "Post" -> name \in {"viewer_has_liked", "is_video"}
      [] item_type = "StoryItem" -> name \in {"is_video"}

Raised(exc, msg, id) == [status |-> exc, msg |-> msg, id |-> id, tree |-> <<>>]
Compiled(tree) == [status |-> "ok", msg |-> "", id |-> "", tree |-> tree]

\* ast.parse(filter_str, mode='eval'): only an expression has a tree.
ast_parse_accepts(filter_str) == filter_str.kind = "expression"

\* A variant of visit_Name that lets datetime through before it looks at the
\* context of the name.
visit_Name_datetime_first(node, item_type) ==
    IF node.id = "datetime"
    THEN Compiled(<<[node |-> "Name", id |-> "datetime"]>>)
    ELSE IF node.ctx # "Load"
    THEN Raised("InvalidArgumentException", "Modifying variables not allowed", node.id)
    ELSE IF ~hasattr(item_type, node.id)
    THEN Raised("InvalidArgumentException", "not an attribute", node.id)
    ELSE Compiled(<<[node |-> "Attribute", id |-> node.id]>>)

\* TransformFilterAst.visit_Name: what one Name node becomes, or what it raises.
visit_Name(node, item_type) ==
    IF node.ctx # "Load"
    THEN Raised("InvalidArgumentException", "Modifying variables not allowed", node.id)
    ELSE IF node.id = "datetime"
    THEN Compiled(<<[node |-> "Name", id |-> "datetime"]>>)
    ELSE IF ~hasattr(item_type, node.id)
    THEN Raised("InvalidArgumentException", "not an attribute", node.id)
    ELSE Compiled(<<[node |-> "Attribute", id |-> node.id]>>)

\* TransformFilterAst().visit(tree): the nodes are visited in order and the
\* first one that raises ends the traversal.
RECURSIVE visit(_, _)
visit(names, item_type) ==
    IF names = <<>> THEN Compiled(<<>>)
    ELSE LET first == visit_Name(Head(names), item_type)
         IN  IF first.status # "ok" THEN first
             ELSE LET rest == visit(Tail(names), item_type)
                  IN  IF rest.status # "ok" THEN rest
                      ELSE Compiled(first.tree \o rest.tree)

filterstr_to_filterfunc(filter_str, item_type) ==
    IF ~ast_parse_accepts(filter_str)
    THEN Raised("SyntaxError", "invalid syntax", "")
    ELSE visit(filter_str.names, item_type)

\* No filter function (Python's None).
NoFunc == Compiled(<<[node |-> "None", id |-> ""]>>)

-----------------------------------------------------------------------------
(* Exceptions and where they are caught *)

\* InstaloaderException and the subclasses of it that __main__ names.
InstaloaderExceptions ==
    {"InstaloaderException", "InvalidArgumentException", "ProfileNotExistsException"}

Running == [code |-> -1, report |-> "running", exc |-> ""]

\* main(): except InstaloaderException -> SystemExit("Fatal error: ...");
\* any other exception leaves main() uncaught, as a traceback.
main_except(exc) ==
    IF exc \in InstaloaderExceptions
    THEN [code |-> 1, report |-> "Fatal error", exc |-> exc]
    ELSE [code |-> 1, report |-> "traceback", exc |-> exc]

\* A variant of caught_by_try for a try block without its except clause.
caught_by_nothing(exc) == FALSE

\* _main(): except KeyboardInterrupt around the two loops.
caught_by_try(exc) == exc = "KeyboardInterrupt"

\* context.error_catcher(extra_info): an InstaloaderException raised inside
\* is recorded with extra_info and swallowed.
error_catcher_catches(exc) == exc \in InstaloaderExceptions

ErrorRecord(extra_info, exc) == [info |-> extra_info, cause |-> exc]

\* One entry of the history: `op` was called with `arg` while `target` was
\* being handled (<<>> outside the two loops) and returned or raised `res`.
Call(target, op, arg, res) == [target |-> target, op |-> op, arg |-> arg, res |-> res]

\* An exception leaves _main and reaches main()'s handler.
\* A line written with instaloader.context.log.
Log(msg) == Call(<<>>, "log", <<msg>>, "ok")

Escape(exc) ==
    /\ pc' = "done"
    /\ exit' = main_except(exc)

-----------------------------------------------------------------------------
(* Target classification, as the loop over targetlist decides it *)

\* A variant of is_local_descriptor that trusts the suffix and does not ask
\* the file system.
is_local_descriptor_by_suffix(target) ==
    endswith(target, JSON) \/ endswith(target, JSON_XZ)

\* Line 96: the test made on the target as given, before anything else.
is_local_descriptor(target) ==
    (endswith(target, JSON) \/ endswith(target, JSON_XZ)) /\ isfile(target)

\* Lines 119-138: the branch taken for a target that is no local file.
\* target[0] of an empty string raises IndexError.
branch(target) ==
    LET t == rstrip(target)
    IN  IF t = <<>> THEN [variant |-> "IndexError", name |-> t]
        ELSE IF t[1] = "@" THEN [variant |-> "AccountFollowees", name |-> Tail(t)]
        ELSE IF t[1] = "#" THEN [variant |-> "Tag", name |-> Tail(t)]
        ELSE IF t = FEED THEN [variant |-> "SpecialFeed", name |-> t]
        ELSE IF t = STORIES THEN [variant |-> "SpecialStories", name |-> t]
        ELSE IF t = SAVED THEN [variant |-> "SpecialSaved", name |-> t]
        ELSE [variant |-> "AccountName", name |-> t]

classify(target) ==
    IF is_local_descriptor(target)
    THEN [variant |-> "LocalDescriptorFile", name |-> target]
    ELSE branch(target)

\* A variant of has_removed_target that looks at the first target only.
first_is_removed_target(list) ==
    list # <<>> /\ (list[1] = FEED_ALL \/ list[1] = FEED_LIKED)

\* Line 297: the removed targets, looked for in the list as given.
has_removed_target(list) ==
    \E i \in 1..Len(list) : list[i] = FEED_ALL \/ list[i] = FEED_LIKED

-----------------------------------------------------------------------------
(* The command line *)

\* The filter strings tried on the command line: a valid one, one that is
\* no expression, one naming an unknown attribute, one binding a name.
MainFilters ==
    { [kind |-> "expression", names |-> <<[id |-> "is_video", ctx |-> "Load"]>>],
      [kind |-> "malformed", names |-> <<>>],
      [kind |-> "expression", names |-> <<[id |-> "x", ctx |-> "Load"]>>],
      [kind |-> "expression", names |-> <<[id |-> "is_video", ctx |-> "Store"]>>] }

\* A filter string that compiles for a Post and for a StoryItem.
ValidFilter == [kind |-> "expression", names |-> <<[id |-> "is_video", ctx |-> "Load"]>>]

\* The defaults of --no-profile-pic, --profile-pic-only and --fast-update.
DefaultDownloadOptions ==
    /\ profile_pic = TRUE
    /\ profile_pic_only = FALSE
    /\ fast_update = FALSE

\* A target that leads to download_profile.
ProfileTargets == { <<"a">> }

\* A command line: any list of targets with at most a login name and its
\* password as options; or at most MaxTargetsWithOptions of the targets
\* that read the options, with any two filters, or with any combination of
\* the stories flags and of the password; or a login and at most
\* MaxTargetsWithOptions profiles with any combination of the options that
\* download_profile is given.
PlainCommandLine ==
    /\ targetlist \in TargetLists
    /\ username \in {"None", "u"}
    /\ password = (IF username = "None" THEN "None" ELSE "pw")
    /\ stories = FALSE
    /\ stories_only = FALSE
    /\ DefaultDownloadOptions
    /\ post_filter_str = NoFilter
    /\ storyitem_filter_str = NoFilter

CommandLineWithFilters ==
    /\ targetlist \in SeqsUpTo(OptionTargets, MaxTargetsWithOptions)
    /\ username \in {"None", "u"}
    /\ password = (IF username = "None" THEN "None" ELSE "pw")
    /\ stories = FALSE
    /\ stories_only = FALSE
    /\ DefaultDownloadOptions
    /\ post_filter_str \in {NoFilter} \cup MainFilters
    /\ storyitem_filter_str \in {NoFilter} \cup MainFilters

CommandLineWithStories ==
    /\ targetlist \in SeqsUpTo(OptionTargets, MaxTargetsWithOptions)
    /\ username \in {"None", "u"}
    /\ password \in (IF username = "None" THEN {"None"} ELSE {"None", "pw"})
    /\ stories \in BOOLEAN
    /\ stories_only \in BOOLEAN
    /\ DefaultDownloadOptions
    /\ post_filter_str = NoFilter
    /\ storyitem_filter_str = NoFilter

CommandLineWithDownloadOptions ==
    /\ targetlist \in SeqsUpTo(ProfileTargets, MaxTargetsWithOptions)
    /\ username = "u"
    /\ password = "pw"
    /\ stories \in BOOLEAN
    /\ stories_only \in BOOLEAN
    /\ profile_pic \in BOOLEAN
    /\ profile_pic_only \in BOOLEAN
    /\ fast_update \in BOOLEAN
    /\ post_filter_str \in {NoFilter, ValidFilter}
    /\ storyitem_filter_str \in {NoFilter, ValidFilter}

CommandLineWithOptions ==
    \/ CommandLineWithFilters
    \/ CommandLineWithStories
    \/ CommandLineWithDownloadOptions

Init ==
    /\ pc = "main"
    /\ exit = Running
    /\ (PlainCommandLine \/ CommandLineWithOptions)
    /\ post_filter = NoFunc
    /\ storyitem_filter = NoFunc
    /\ is_logged_in = FALSE
    /\ idx = 1
    /\ profiles = {}
    /\ pending = {}
    /\ cur = <<>>
    /\ errlog = <<>>
    /\ calls = <<>>
    /\ given = <<>>
    /\ taken = <<>>
    /\ c_in = [filter_str |-> NoFilter, item_type |-> "Post"]
    /\ c_out = NoFunc

-----------------------------------------------------------------------------
(* main(), lines 289-299, and the start of _main(), lines 68-90 *)

\* Lines 291-299: stories need a login; removed targets end the run.
main_checks ==
    /\ pc = "main"
    /\ LET nologin == username = "None" /\ (stories \/ stories_only)
       IN  /\ stories' = (IF nologin THEN FALSE ELSE stories)
           /\ calls' = (IF nologin
                        THEN Append(calls, Call(<<>>, "print_stderr", <<"--login required">>, "ok"))
                        ELSE calls)
           /\ IF nologin /\ stories_only
              THEN /\ pc' = "done"
                   /\ exit' = [code |-> 1, report |-> "none", exc |-> "SystemExit"]
              ELSE IF has_removed_target(targetlist)
              THEN /\ pc' = "done"
                   /\ exit' = [code |-> 1, report |-> "targets removed", exc |-> "SystemExit"]
              ELSE /\ pc' = "post_filter"
                   /\ exit' = exit
    /\ UNCHANGED <<inputs, post_filter, storyitem_filter, is_logged_in, loopVars,
                   pending, cur, errlog, given, compilerVars>>

\* Lines 69-72.
compile_post_filter ==
    /\ pc = "post_filter"
    /\ IF post_filter_str = NoFilter
       THEN /\ pc' = "storyitem_filter"
            /\ UNCHANGED <<post_filter, exit, calls>>
       ELSE LET r == filterstr_to_filterfunc(post_filter_str, "Post")
            IN  /\ calls' = calls
                            \o <<Call(<<>>, "filterstr_to_filterfunc", <<"Post">>, r.status)>>
                            \o (IF r.status = "ok"
                                THEN <<Log("Only download posts with property")>> ELSE <<>>)
                /\ IF r.status = "ok"
                   THEN /\ post_filter' = r
                        /\ pc' = "storyitem_filter"
                        /\ exit' = exit
                   ELSE /\ post_filter' = post_filter
                        /\ Escape(r.status)
    /\ UNCHANGED <<inputs, stories, storyitem_filter, is_logged_in, loopVars, pending, cur, errlog, given, compilerVars>>

\* A variant of compile_storyitem_filter that goes on without a filter when
\* the filter string does not compile.
compile_storyitem_filter_leniently ==
    /\ pc = "storyitem_filter"
    /\ LET r == filterstr_to_filterfunc(storyitem_filter_str, "StoryItem")
       IN  /\ storyitem_filter' = (IF storyitem_filter_str # NoFilter /\ r.status = "ok"
                                   THEN r ELSE NoFunc)
           /\ calls' = (IF storyitem_filter_str = NoFilter THEN calls
                        ELSE Append(calls, Call(<<>>, "filterstr_to_filterfunc",
                                                <<"StoryItem">>, r.status)))
    /\ pc' = "login"
    /\ UNCHANGED <<inputs, exit, stories, post_filter, is_logged_in, loopVars,
                   pending, cur, errlog, given, compilerVars>>

\* Lines 73-76.
compile_storyitem_filter ==
    /\ pc = "storyitem_filter"
    /\ IF storyitem_filter_str = NoFilter
       THEN /\ pc' = "login"
            /\ UNCHANGED <<storyitem_filter, exit, calls>>
       ELSE LET r == filterstr_to_filterfunc(storyitem_filter_str, "StoryItem")
            IN  /\ calls' = calls
                            \o <<Call(<<>>, "filterstr_to_filterfunc", <<"StoryItem">>, r.status)>>
                            \o (IF r.status = "ok"
                                THEN <<Log("Only download storyitems with property")>> ELSE <<>>)
                /\ IF r.status = "ok"
                   THEN /\ storyitem_filter' = r
                        /\ pc' = "login"
                        /\ exit' = exit
                   ELSE /\ storyitem_filter' = storyitem_filter
                        /\ Escape(r.status)
    /\ UNCHANGED <<inputs, stories, post_filter, is_logged_in, loopVars, pending, cur, errlog, given, compilerVars>>

\* Lines 78-84: with a login name, the session file is loaded; a missing
\* file is tolerated, anything else load_session_from_file raises is not.
load_session ==
    /\ pc = "login"
    /\ IF username = "None"
       THEN /\ pc' = "targets"
            /\ UNCHANGED <<exit, calls, is_logged_in>>
       ELSE \E r \in {"ok", "FileNotFoundError", "PermissionError"} :
              /\ calls' = calls
                          \o <<Call(<<>>, "load_session_from_file", <<username>>, r)>>
                          \o (IF r = "FileNotFoundError"
                              THEN <<Log("Session file does not exist yet - Logging in.")>>
                              ELSE <<>>)
              /\ is_logged_in' = (r = "ok")
              /\ IF r \in {"ok", "FileNotFoundError"}
                 THEN pc' = "login_check" /\ exit' = exit
                 ELSE Escape(r)
    /\ UNCHANGED <<inputs, stories, post_filter, storyitem_filter, loopVars, pending, cur, errlog, given, compilerVars>>

\* A variant of check_login that trusts a loaded session without asking
\* test_login() whose session it is.
check_login_by_session_only ==
    /\ pc = "login_check"
    /\ IF ~is_logged_in
       THEN /\ pc' = "login_do"
            /\ calls' = calls
       ELSE /\ calls' = Append(calls, Log("Logged in as"))
            /\ pc' = "targets"
    /\ UNCHANGED <<inputs, exit, stories, post_filter, storyitem_filter, is_logged_in,
                   loopVars, pending, cur, errlog, given, compilerVars>>

\* Line 85: test_login() is asked only of a logged-in session; line 90 when
\* no login is needed.
check_login ==
    /\ pc = "login_check"
    /\ IF ~is_logged_in
       THEN /\ pc' = "login_do"
            /\ calls' = calls
       ELSE \E who \in {username, "other"} :
              /\ calls' = calls
                          \o <<Call(<<>>, "test_login", <<>>, who)>>
                          \o (IF username = who THEN <<Log("Logged in as")>> ELSE <<>>)
              /\ pc' = (IF username # who THEN "login_do" ELSE "targets")
    /\ UNCHANGED <<inputs, exit, stories, post_filter, storyitem_filter, is_logged_in,
                   loopVars, pending, cur, errlog, given, compilerVars>>

\* Lines 86-90: login with the password given, else interactively.
do_login ==
    /\ pc = "login_do"
    /\ \E r \in {"ok", "InstaloaderException"} :
         /\ calls' = calls
                     \o <<Call(<<>>, IF password # "None" THEN "login" ELSE "interactive_login",
                               <<username>>, r)>>
                     \o (IF r = "ok" THEN <<Log("Logged in as")>> ELSE <<>>)
         /\ IF r = "ok"
            THEN /\ is_logged_in' = TRUE
                 /\ pc' = "targets"
                 /\ exit' = exit
            ELSE /\ is_logged_in' = is_logged_in
                 /\ Escape(r)
    /\ UNCHANGED <<inputs, stories, post_filter, storyitem_filter,
                   loopVars, pending, cur, errlog, given, compilerVars>>

-----------------------------------------------------------------------------
(* _main(), lines 92-138: the loop over targetlist *)

Interrupted == Call(<<>>, "print_stderr", <<"Interrupted by user.">>, "ok")

\* What a call that downloads may do: return, raise an InstaloaderException
\* or be interrupted by the user.
DownloadOutcomes == {"ok", "InstaloaderException", "KeyboardInterrupt"}

\* A variant of guarded in which the handler of KeyboardInterrupt returns
\* from _main: the session is not saved.
guarded_interrupt_returns(info, events, exc, next_pc) ==
    /\ calls' = calls \o events \o (IF caught_by_try(exc) THEN <<Interrupted>> ELSE <<>>)
    /\ IF exc = ""
       THEN pc' = next_pc /\ UNCHANGED <<errlog, exit>>
       ELSE IF error_catcher_catches(exc)
       THEN /\ errlog' = Append(errlog, ErrorRecord(info, exc))
            /\ pc' = next_pc
            /\ exit' = exit
       ELSE IF caught_by_try(exc)
       THEN /\ pc' = "done"
            /\ exit' = [code |-> 0, report |-> "none", exc |-> ""]
            /\ errlog' = errlog
       ELSE Escape(exc) /\ errlog' = errlog

\* How the body of `with error_catcher(info)` inside the try block ends,
\* having made the calls `events` and raised `exc` ("" when it returned):
\* an InstaloaderException is recorded and swallowed, a KeyboardInterrupt
\* is caught by the try at line 158, the rest leaves _main.
guarded(info, events, exc, next_pc) ==
    /\ calls' = calls \o events \o (IF caught_by_try(exc) THEN <<Interrupted>> ELSE <<>>)
    /\ IF exc = ""
       THEN pc' = next_pc /\ UNCHANGED <<errlog, exit>>
       ELSE IF error_catcher_catches(exc)
       THEN /\ errlog' = Append(errlog, ErrorRecord(info, exc))
            /\ pc' = next_pc
            /\ exit' = exit
       ELSE IF caught_by_try(exc)
       THEN pc' = "save" /\ UNCHANGED <<errlog, exit>>
       ELSE Escape(exc) /\ errlog' = errlog

\* One iteration of `for target in targetlist` under error_catcher(info).
target_step(info, events, exc, new_profiles) ==
    /\ guarded(<<info>>, events, exc, "targets")
    /\ taken' = Append(taken, [target |-> targetlist[idx],
                               variant |-> classify(targetlist[idx]).variant,
                               name |-> classify(targetlist[idx]).name,
                               added |-> IF exc = "" THEN new_profiles ELSE {}])
    /\ idx' = (IF exc = "" \/ error_catcher_catches(exc) THEN idx + 1 ELSE idx)
    /\ profiles' = (IF exc = "" THEN profiles \cup new_profiles ELSE profiles)
    /\ UNCHANGED <<inputs, stories, post_filter, storyitem_filter, is_logged_in,
                   pending, cur, given, compilerVars>>

at_target(variant) ==
    /\ pc = "targets"
    /\ idx <= Len(targetlist)
    /\ classify(targetlist[idx]).variant = variant

\* What load_structure_from_file returns: a Post, a StoryItem, a Profile or a
\* structure of another class.
Structures == {"Post", "StoryItem", "Profile", "Hashtag"}

Bool(b) == IF b THEN "True" ELSE "False"

\* Lines 112-116: the message of the InvalidArgumentException raised for a
\* structure that is neither a Post nor a StoryItem.
rejection_message(structure) ==
    IF structure = "Profile"
    THEN "Profile JSON are ignored. Pass structure.username to download that profile."
    ELSE "JSON file not supported as target"

\* A variant of dispatch that asks each filter about the other class: the
\* storyitem filter about a Post, the post filter about a StoryItem.
dispatch_filters_exchanged(target, structure, accept, outcome) ==
    LET filter == IF structure = "Post" THEN storyitem_filter ELSE post_filter
        fname == IF structure = "Post" THEN "storyitem_filter" ELSE "post_filter"
        dname == IF structure = "Post" THEN "download_post" ELSE "download_storyitem"
        asked == IF filter # NoFunc THEN <<Call(target, fname, target, Bool(accept))>> ELSE <<>>
    IN  IF structure \in {"Post", "StoryItem"}
        THEN IF filter # NoFunc /\ ~accept
             THEN [events |-> asked, exc |-> ""]
             ELSE [events |-> asked \o <<Call(target, dname, target, outcome)>>,
                   exc |-> IF outcome = "ok" THEN "" ELSE outcome]
        ELSE [events |-> <<Call(target, "raise", <<rejection_message(structure)>>,
                                "InvalidArgumentException")>>,
              exc |-> "InvalidArgumentException"]

\* A variant of dispatch that has no branch for a Profile: it is downloaded
\* like a StoryItem.
dispatch_without_profile_branch(target, structure, accept, outcome) ==
    LET filter == IF structure = "Post" THEN post_filter ELSE storyitem_filter
        fname == IF structure = "Post" THEN "post_filter" ELSE "storyitem_filter"
        dname == IF structure = "Post" THEN "download_post" ELSE "download_storyitem"
        asked == IF filter # NoFunc THEN <<Call(target, fname, target, Bool(accept))>> ELSE <<>>
    IN  IF structure \in {"Post", "StoryItem", "Profile"}
        THEN IF filter # NoFunc /\ ~accept
             THEN [events |-> asked, exc |-> ""]
             ELSE [events |-> asked \o <<Call(target, dname, target, outcome)>>,
                   exc |-> IF outcome = "ok" THEN "" ELSE outcome]
        ELSE [events |-> <<Call(target, "raise", <<rejection_message(structure)>>,
                                "InvalidArgumentException")>>,
              exc |-> "InvalidArgumentException"]

\* Lines 99-116: the dispatch on the class of the loaded structure. `accept`
\* is what the filter of that class answers, `outcome` what the download does.
dispatch(target, structure, accept, outcome) ==
    LET filter == IF structure = "Post" THEN post_filter ELSE storyitem_filter
        fname == IF structure = "Post" THEN "post_filter" ELSE "storyitem_filter"
        dname == IF structure = "Post" THEN "download_post" ELSE "download_storyitem"
        asked == IF filter # NoFunc THEN <<Call(target, fname, target, Bool(accept))>> ELSE <<>>
    IN  IF structure \in {"Post", "StoryItem"}
        THEN IF filter # NoFunc /\ ~accept
             THEN [events |-> asked, exc |-> ""]
             ELSE [events |-> asked \o <<Call(target, dname, target, outcome)>>,
                   exc |-> IF outcome = "ok" THEN "" ELSE outcome]
        ELSE [events |-> <<Call(target, "raise", <<rejection_message(structure)>>,
                                "InvalidArgumentException")>>,
              exc |-> "InvalidArgumentException"]

\* Lines 96-117: a target that names a saved structure.
target_local ==
    /\ at_target("LocalDescriptorFile")
    /\ LET target == targetlist[idx]
       IN  \/ \E exc \in {"InstaloaderException", "KeyboardInterrupt"} :
                target_step(target, <<Call(target, "load_structure_from_file", target, exc)>>, exc, {})
           \/ \E structure \in Structures, accept \in BOOLEAN, outcome \in DownloadOutcomes :
                LET d == dispatch(target, structure, accept, outcome)
                IN  target_step(target,
                                <<Call(target, "load_structure_from_file", target, structure)>> \o d.events,
                                d.exc, {})

\* Lines 119-121 for a target that is empty once stripped: target[0] raises.
target_empty ==
    /\ at_target("IndexError")
    /\ target_step(rstrip(targetlist[idx]),
                   <<Call(rstrip(targetlist[idx]), "raise", <<>>, "IndexError")>>, "IndexError", {})

\* A variant of followees_added in which the profile named joins the set
\* along with its followees.
followees_added_with_self(name, followees) == followees \cup {name}

\* Line 125: what profiles.update() is given.
followees_added(name, followees) == followees

\* Lines 121-125: the followees of the named profile join the set.
target_followees ==
    /\ at_target("AccountFollowees")
    /\ LET target == rstrip(targetlist[idx])
           name == classify(targetlist[idx]).name
       IN  \/ target_step(target,
                          <<Call(target, "Profile.from_username", name, "ProfileNotExistsException")>>,
                          "ProfileNotExistsException", {})
           \/ \E exc \in {"InstaloaderException", "KeyboardInterrupt"} :
                target_step(target,
                            <<Call(target, "Profile.from_username", name, "ok"),
                              Call(target, "get_followees", name, exc)>>, exc, {})
           \/ \E followees \in FolloweeSets(name) :
                target_step(target,
                            <<Call(target, "Profile.from_username", name, "ok"),
                              Call(target, "get_followees", name, "ok")>>, "",
                            followees_added(name, followees))

\* Lines 126-128.
target_hashtag ==
    /\ at_target("Tag")
    /\ \E outcome \in DownloadOutcomes :
         target_step(rstrip(targetlist[idx]),
                     <<Call(rstrip(targetlist[idx]), "download_hashtag",
                            classify(targetlist[idx]).name, outcome)>>,
                     IF outcome = "ok" THEN "" ELSE outcome, {})

\* Lines 129-136: the three special targets.
special_call(variant) ==
    CASE variant = "SpecialFeed" -> "download_feed_posts"
      [] variant = "SpecialStories" -> "download_stories"
      [] variant = "SpecialSaved" -> "download_saved_posts"

target_special ==
    /\ \E variant \in {"SpecialFeed", "SpecialStories", "SpecialSaved"} :
         /\ at_target(variant)
         /\ \E outcome \in DownloadOutcomes :
              target_step(rstrip(targetlist[idx]),
                          <<Call(rstrip(targetlist[idx]), special_call(variant), <<>>, outcome)>>,
                          IF outcome = "ok" THEN "" ELSE outcome, {})

\* A variant of target_profile that downloads the profile at once, within
\* the loop over targetlist.
target_profile_at_once ==
    /\ at_target("AccountName")
    /\ target_step(rstrip(targetlist[idx]),
                   <<Call(rstrip(targetlist[idx]), "download_profile",
                          classify(targetlist[idx]).name, "ok")>>, "", {})

\* A variant of profile_added that keeps the target as it was given, with
\* its trailing separators.
profile_added_as_given(raw) == {raw}

\* Lines 119 and 138: the name that profiles.add() is given.
profile_added(raw) == {rstrip(raw)}

\* Lines 137-138: anything else is the name of a profile.
target_profile ==
    /\ at_target("AccountName")
    /\ target_step(rstrip(targetlist[idx]), <<>>, "", profile_added(targetlist[idx]))

-----------------------------------------------------------------------------
(* _main(), lines 139-170: the loop over profiles, and the way out *)

\* Lines 139-142: the loop over targetlist is over, the one over the set of
\* profiles starts; over an empty set it ends at once.
begin_profiles ==
    /\ pc = "targets"
    /\ idx > Len(targetlist)
    /\ pending' = profiles
    /\ pc' = (IF profiles = {} THEN "save" ELSE "profiles")
    /\ UNCHANGED <<inputs, exit, stories, post_filter, storyitem_filter, is_logged_in,
                   loopVars, cur, errlog, calls, given, compilerVars>>

\* What download_profile may do.
ProfileOutcomes == DownloadOutcomes \cup {"ProfileNotExistsException"}

\* A variant of no_target_message with the two lines exchanged.
no_target_message_swapped(logged_in) ==
    IF logged_in
    THEN "usage:"
    ELSE "No targets were specified, thus nothing has been downloaded."

\* Lines 164-170: the line logged when no target was given.
no_target_message(logged_in) ==
    IF logged_in
    THEN "No targets were specified, thus nothing has been downloaded."
    ELSE "usage:"

\* A variant of retries_anonymously that does not look at the session: the
\* retry is made for a run without login too.
retries_anonymously_always(exc, logged_in) ==
    exc = "ProfileNotExistsException"

\* Lines 148-149: the exception and the session state that lead to a retry
\* with an anonymous copy of the loader.
retries_anonymously(exc, logged_in) ==
    exc = "ProfileNotExistsException" /\ logged_in

\* Line 142: where the loop over profiles goes with `left` still to visit.
after_profile(left) == IF left = {} THEN "save" ELSE "profiles"

\* One entry of `given`: the loader's method `op` was called for `target`
\* with the arguments `args`, a record of the parameters the call names or
\* fills by position.
Given(op, target, args) == [op |-> op, target |-> target, args |-> args]

\* Lines 145-147: what the first attempt passes to download_profile after
\* the profile's name.
download_profile_arguments(pp, ppo, fu, st, sto, pf, sf) ==
    [profile_pic |-> pp, profile_pic_only |-> ppo, fast_update |-> fu,
     stories |-> st, stories_only |-> sto, post_filter |-> pf, storyitem_filter |-> sf]

\* A variant of anonymous_arguments that repeats the first attempt's call.
anonymous_arguments_repeated(pp, ppo, fu, st, sto, pf, sf) ==
    [profile_pic |-> pp, profile_pic_only |-> ppo, fast_update |-> fu,
     stories |-> st, stories_only |-> sto, post_filter |-> pf, storyitem_filter |-> sf]

\* Lines 153-155: what the retry passes to the anonymous copy's
\* download_profile; the stories flags and the storyitem filter are left
\* out of the call.
anonymous_arguments(pp, ppo, fu, st, sto, pf, sf) ==
    [profile_pic |-> pp, profile_pic_only |-> ppo, fast_update |-> fu, post_filter |-> pf]

\* Instaloader.download_profile's values for the parameters a call leaves
\* out: no stories, no filters.
download_profile_defaults ==
    [profile_pic |-> TRUE, profile_pic_only |-> FALSE, fast_update |-> FALSE,
     stories |-> FALSE, stories_only |-> FALSE,
     post_filter |-> NoFunc, storyitem_filter |-> NoFunc]

\* The value download_profile works with for parameter `p` when called
\* with `args`.
effective(args, p) == IF p \in DOMAIN args THEN args[p] ELSE download_profile_defaults[p]

\* Lines 142-147, 156-157: one profile of the set, in the set's own order,
\* is downloaded with the loader of the run.
download_profile ==
    /\ pc = "profiles"
    /\ \E target \in pending, outcome \in ProfileOutcomes :
         LET call == Call(target, "download_profile", target, outcome)
         IN  /\ pending' = pending \ {target}
             /\ IF retries_anonymously(outcome, is_logged_in)
                THEN /\ calls' = Append(calls, call)
                     /\ cur' = target
                     /\ pc' = "anonymous"
                     /\ UNCHANGED <<errlog, exit>>
                ELSE /\ guarded(<<target>>, <<call>>,
                                IF outcome = "ok" THEN "" ELSE outcome,
                                after_profile(pending \ {target}))
                     /\ cur' = cur
             /\ given' = Append(given,
                    Given("download_profile", target,
                          download_profile_arguments(profile_pic, profile_pic_only,
                                                     fast_update, stories, stories_only,
                                                     post_filter, storyitem_filter)))
    /\ UNCHANGED <<inputs, stories, post_filter, storyitem_filter, is_logged_in,
                   loopVars, compilerVars>>

\* Line 151: instaloader.anonymous_copy() yields a new loader that is not
\* logged in and leaves the context of the loader it is called on as it is.
anonymous_copy(logged_in) == [own |-> logged_in, copy |-> FALSE]

\* A variant of download_profile_anonymously that makes no copy: the loader
\* of the run is logged out and used for the retry.
download_profile_logged_out ==
    /\ pc = "anonymous"
    /\ \E outcome \in ProfileOutcomes :
         guarded(<<>>, <<Call(cur, "anonymous.download_profile", cur, outcome)>>,
                 IF outcome = "ok" THEN "" ELSE outcome, after_profile(pending))
    /\ cur' = <<>>
    /\ is_logged_in' = FALSE
    /\ given' = Append(given,
           Given("anonymous.download_profile", cur,
                 anonymous_arguments(profile_pic, profile_pic_only, fast_update,
                                     stories, stories_only, post_filter,
                                     storyitem_filter)))
    /\ UNCHANGED <<inputs, stories, post_filter, storyitem_filter,
                   loopVars, pending, compilerVars>>

\* Lines 150-155: the retry with instaloader.anonymous_copy(), inside an
\* error_catcher() that is given no extra_info.
download_profile_anonymously ==
    /\ pc = "anonymous"
    /\ \E outcome \in ProfileOutcomes :
         guarded(<<>>, <<Call(cur, "anonymous.download_profile", cur, outcome)>>,
                 IF outcome = "ok" THEN "" ELSE outcome, after_profile(pending))
    /\ cur' = <<>>
    /\ is_logged_in' = anonymous_copy(is_logged_in).own
    /\ given' = Append(given,
           Given("anonymous.download_profile", cur,
                 anonymous_arguments(profile_pic, profile_pic_only, fast_update,
                                     stories, stories_only, post_filter,
                                     storyitem_filter)))
    /\ UNCHANGED <<inputs, stories, post_filter, storyitem_filter,
                   loopVars, pending, compilerVars>>

\* Line 161: the session is saved if the context is logged in.
saves_session(logged_in) == logged_in

\* Lines 160-170 and, back in main(), line 335: the session is saved if
\* logged in, a line is logged if there were no targets, the loader is
\* closed and the process ends with status 0.
save_and_close ==
    /\ pc = "save"
    /\ calls' = calls
                \o (IF saves_session(is_logged_in)
                    THEN <<Call(<<>>, "save_session_to_file", <<>>, "ok")>> ELSE <<>>)
                \o (IF targetlist = <<>>
                    THEN <<Log(no_target_message(is_logged_in))>>
                    ELSE <<>>)
    /\ pc' = "done"
    /\ exit' = [code |-> 0, report |-> "none", exc |-> ""]
    /\ UNCHANGED <<inputs, stories, post_filter, storyitem_filter, is_logged_in,
                   loopVars, pending, cur, errlog, given, compilerVars>>

Next ==
    \/ main_checks
    \/ compile_post_filter
    \/ compile_storyitem_filter
    \/ load_session
    \/ check_login
    \/ do_login
    \/ target_local
    \/ target_empty
    \/ target_followees
    \/ target_hashtag
    \/ target_special
    \/ target_profile
    \/ begin_profiles
    \/ download_profile
    \/ download_profile_anonymously
    \/ save_and_close

Spec == Init /\ [][Next]_vars

-----------------------------------------------------------------------------
(* filterstr_to_filterfunc on its own *)

InitCompile ==
    /\ pc = "compile"
    /\ exit = Running
    /\ targetlist = <<>>
    /\ username = "None"
    /\ password = "None"
    /\ stories = FALSE
    /\ stories_only = FALSE
    /\ DefaultDownloadOptions
    /\ post_filter_str = NoFilter
    /\ storyitem_filter_str = NoFilter
    /\ post_filter = NoFunc
    /\ storyitem_filter = NoFunc
    /\ is_logged_in = FALSE
    /\ idx = 1
    /\ profiles = {}
    /\ pending = {}
    /\ cur = <<>>
    /\ errlog = <<>>
    /\ calls = <<>>
    /\ given = <<>>
    /\ taken = <<>>
    /\ c_in \in [filter_str : FilterStrs, item_type : ItemTypes]
    /\ c_out = NoFunc

run_compiler ==
    /\ pc = "compile"
    /\ c_out' = filterstr_to_filterfunc(c_in.filter_str, c_in.item_type)
    /\ pc' = "compiled"
    /\ UNCHANGED <<inputs, exit, stories, post_filter, storyitem_filter, is_logged_in,
                   loopVars, pending, cur, errlog, calls, given, c_in>>

NextCompile == run_compiler

SpecCompile == InitCompile /\ [][NextCompile]_vars

-----------------------------------------------------------------------------
(* Vocabulary of the properties *)

Indices == DOMAIN calls

DownloadOps ==
    {"download_post", "download_storyitem", "download_hashtag", "download_feed_posts",
     "download_stories", "download_saved_posts", "download_profile",
     "anonymous.download_profile"}

ProfileOps == {"download_profile", "anonymous.download_profile"}

LoginOps == {"load_session_from_file", "test_login", "login", "interactive_login"}

\* The filter string is no expression, or one of its names is bound, or is
\* read without being an attribute of the item type or datetime.
Faulty(filter_str, item_type) ==
    /\ filter_str # NoFilter
    /\ \/ filter_str.kind # "expression"
       \/ \E k \in DOMAIN filter_str.names :
            LET node == filter_str.names[k]
            IN  \/ node.ctx # "Load"
                \/ node.id # "datetime" /\ ~hasattr(item_type, node.id)

ContainsRemoved ==
    \E k \in DOMAIN targetlist : targetlist[k] \in {FEED_ALL, FEED_LIKED}

\* The command line and the environment let the run reach the loop over
\* targetlist: main's checks pass, the filters compile and the login, if
\* any, does not fail.
StartupSucceeds ==
    /\ ~(username = "None" /\ stories_only)
    /\ ~ContainsRemoved
    /\ ~Faulty(post_filter_str, "Post")
    /\ ~Faulty(storyitem_filter_str, "StoryItem")
    /\ \A i \in Indices :
         calls[i].op \in LoginOps => calls[i].res \notin {"PermissionError", "InstaloaderException"}

\* Nothing but per-target faults has been raised in the two loops.
OnlyPerTargetFaults ==
    \A i \in Indices : calls[i].res \notin {"KeyboardInterrupt", "IndexError"}

IsFault(i) == calls[i].res \in InstaloaderExceptions

SaveCount == Cardinality({i \in Indices : calls[i].op = "save_session_to_file"})

AllAttempted ==
    /\ Len(taken) = Len(targetlist)
    /\ \A a \in profiles : \E i \in Indices : calls[i].op = "download_profile" /\ calls[i].arg = a

-----------------------------------------------------------------------------
(* C1: failure isolation *)

\* The fault at position i of the history is followed by the anonymous
\* retry of the same profile.
Retried(i) ==
    calls[i].op = "download_profile" /\ calls[i].res = "ProfileNotExistsException" /\ is_logged_in

\* The targets and profiles that failed: an InstaloaderException was raised
\* while they were handled and was not made up for by an anonymous retry
\* (a retry fails or succeeds on its own account).
Faulted == { calls[i].target : i \in { j \in Indices : IsFault(j) /\ ~Retried(j) } }

RecordedInfos == { errlog[i].info : i \in DOMAIN errlog }

\* C1 as stated: in a run in which only per-target faults are raised, every
\* target and every gathered profile is attempted, the run ends normally,
\* and the error records name exactly the targets that failed.
C1_Original ==
    (pc = "done" /\ StartupSucceeds /\ OnlyPerTargetFaults) =>
        /\ exit.code = 0
        /\ AllAttempted
        /\ RecordedInfos = { <<t>> : t \in Faulted }

\* The record, if any, that a history entry leaves: a fault leaves one that
\* names its target, except that the ProfileNotExistsException of a
\* logged-in download_profile leaves none and a fault of the anonymous retry
\* leaves one without a name.
RecordOf(e) ==
    IF e.res \notin InstaloaderExceptions THEN <<>>
    ELSE IF e.op = "download_profile" /\ e.res = "ProfileNotExistsException" /\ is_logged_in
    THEN <<>>
    ELSE IF e.op = "anonymous.download_profile" THEN <<ErrorRecord(<<>>, e.res)>>
    ELSE <<ErrorRecord(<<e.target>>, e.res)>>

RECURSIVE ExpectedRecords(_)
ExpectedRecords(history) ==
    IF history = <<>> THEN <<>>
    ELSE RecordOf(Head(history)) \o ExpectedRecords(Tail(history))

\* What the code records: one error record per fault that reached a failure
\* boundary, in order.
RecordsFollowHistory ==
    (pc = "done" /\ StartupSucceeds /\ OnlyPerTargetFaults) =>
        /\ exit.code = 0
        /\ AllAttempted
        /\ errlog = ExpectedRecords(calls)

-----------------------------------------------------------------------------
(* C2: session persistence *)

\* C2 as stated: save_session_to_file is called exactly once in every run
\* that got past the login with a logged-in session, however the run ends,
\* and never for a session that is not logged in.
C2_Original ==
    /\ SaveCount <= 1
    /\ (~is_logged_in => SaveCount = 0)
    /\ (pc = "done" /\ StartupSucceeds /\ is_logged_in) => SaveCount = 1

-----------------------------------------------------------------------------
(* C3: anonymous fallback *)

RetryPending(a) == pc = "anonymous" /\ cur = a

NamedRecordCount(a, exc) ==
    Cardinality({i \in DOMAIN errlog : errlog[i] = ErrorRecord(<<a>>, exc)})

\* C3: a profile whose download raises ProfileNotExistsException is retried
\* exactly once with the anonymous copy when the session is logged in (the
\* retry is the very next call); without login there is no retry, the fault
\* is recorded under the profile's name and the loop goes on; nothing else
\* leads to a retry.
C3_AnonymousFallback ==
    LET retries == { i \in Indices : calls[i].op = "anonymous.download_profile" }
        notfound == { i \in Indices : /\ calls[i].op = "download_profile"
                                      /\ calls[i].res = "ProfileNotExistsException" }
    IN  /\ \A i \in retries :
              /\ is_logged_in
              /\ i > 1
              /\ calls[i - 1] = Call(calls[i].arg, "download_profile", calls[i].arg,
                                     "ProfileNotExistsException")
              /\ \A j \in retries : j # i => calls[j].arg # calls[i].arg
        /\ \A i \in notfound :
              IF is_logged_in
              THEN IF i < Len(calls)
                   THEN i + 1 \in retries /\ calls[i + 1].arg = calls[i].arg
                   ELSE RetryPending(calls[i].arg)
              ELSE /\ ~RetryPending(calls[i].arg)
                   /\ NamedRecordCount(calls[i].arg, "ProfileNotExistsException") = 1
                   /\ OnlyPerTargetFaults => pc \in {"profiles", "save", "done"}
        /\ retries # {} => notfound # {}
        /\ pc = "anonymous" => (notfound # {} /\ Len(calls) \in notfound)

\* A logged-in run in which a profile was not found and was retried
\* anonymously, and a later profile was then downloaded.
C3_Witness ==
    /\ pc = "done"
    /\ is_logged_in
    /\ \E i, j \in Indices :
         /\ i < j
         /\ calls[i].op = "anonymous.download_profile"
         /\ calls[j].op = "download_profile"

-----------------------------------------------------------------------------
(* C4: interrupt during the loop over profiles *)

InterruptedProfile(i) ==
    calls[i].op \in ProfileOps /\ calls[i].res = "KeyboardInterrupt"

\* C4: once a profile download is interrupted, no further profile is
\* downloaded and nothing more is recorded as failed; the run goes on to
\* save the session if logged in, and ends with status 0, not with the
\* interrupt.
C4_InterruptInProfiles ==
    \A i \in Indices :
        InterruptedProfile(i) =>
            /\ pc \in {"save", "done"}
            /\ \A j \in Indices : j > i => calls[j].op \notin DownloadOps
            /\ errlog = ExpectedRecords(SubSeq(calls, 1, i))
            /\ pc = "done" => /\ SaveCount = (IF is_logged_in THEN 1 ELSE 0)
                              /\ exit = [code |-> 0, report |-> "none", exc |-> ""]

\* A logged-in run that was interrupted in a profile download with another
\* profile left unvisited, and has saved the session and ended.
C4_Witness ==
    /\ pc = "done"
    /\ is_logged_in
    /\ pending # {}
    /\ SaveCount = 1
    /\ exit.code = 0
    /\ \E i \in Indices : InterruptedProfile(i)

-----------------------------------------------------------------------------
(* C5, C6: target classification *)

HasSuffix(target) == endswith(target, JSON) \/ endswith(target, JSON_XZ)

Specials == {FEED, STORIES, SAVED}

\* The classification in the order C5 gives: strip, then the sigils, then
\* the literals, and only then the local file.
ClaimedClass(raw) ==
    LET t == rstrip(raw)
    IN  IF t[1] = "@" THEN [variant |-> "AccountFollowees", name |-> Tail(t)]
        ELSE IF t[1] = "#" THEN [variant |-> "Tag", name |-> Tail(t)]
        ELSE IF t = FEED THEN [variant |-> "SpecialFeed", name |-> t]
        ELSE IF t = STORIES THEN [variant |-> "SpecialStories", name |-> t]
        ELSE IF t = SAVED THEN [variant |-> "SpecialSaved", name |-> t]
        ELSE IF HasSuffix(t) /\ t \in FILES THEN [variant |-> "LocalDescriptorFile", name |-> t]
        ELSE [variant |-> "AccountName", name |-> t]

\* C5 as stated, for the targets that are not empty once stripped: each one
\* is handled as the variant the stated rule order gives, so that a target
\* with a leading '@' or '#' never counts as a local file.
C5_Original ==
    \A k \in DOMAIN taken :
        rstrip(taken[k].target) # <<>> =>
            [variant |-> taken[k].variant, name |-> taken[k].name] = ClaimedClass(taken[k].target)

\* The first thing done for a target of the given variant.
FirstOp(variant) ==
    CASE variant = "LocalDescriptorFile" -> "load_structure_from_file"
      [] variant = "AccountFollowees" -> "Profile.from_username"
      [] variant = "Tag" -> "download_hashtag"
      [] variant = "SpecialFeed" -> "download_feed_posts"
      [] variant = "SpecialStories" -> "download_stories"
      [] variant = "SpecialSaved" -> "download_saved_posts"
      [] OTHER -> "raise"

\* The handling of a target of that variant and name has left its trace.
HandledAs(raw, variant, name) ==
    IF variant = "AccountName"
    THEN name \in profiles
    ELSE \E i \in Indices :
           /\ calls[i].op = FirstOp(variant)
           /\ calls[i].target = (IF variant = "LocalDescriptorFile" THEN raw ELSE rstrip(raw))
           /\ variant \in {"LocalDescriptorFile", "AccountFollowees", "Tag"} => calls[i].arg = name

\* C5, amended: a target that, as given, ends in .json or .json.xz and names
\* an existing file is a LocalDescriptorFile whatever its first character;
\* any other target is stripped of trailing separators and then a leading
\* '@' yields AccountFollowees(rest), a leading '#' Tag(rest), the literals
\* :feed, :stories and :saved the special variants and anything else that
\* is not empty AccountName; a target that is empty once stripped gets no
\* variant (see C6).
C5_Classification ==
    \A k \in DOMAIN taken :
        LET raw == taken[k].target
            t == rstrip(raw)
            v == taken[k].variant
            n == taken[k].name
        IN  /\ HandledAs(raw, v, n)
            /\ IF HasSuffix(raw) /\ raw \in FILES
               THEN v = "LocalDescriptorFile" /\ n = raw
               ELSE /\ t = <<>> <=> v = "IndexError"
                    /\ (t # <<>> /\ t[1] = "@") <=> (v = "AccountFollowees" /\ n = Tail(t))
                    /\ (t # <<>> /\ t[1] = "#") <=> (v = "Tag" /\ n = Tail(t))
                    /\ t = FEED <=> v = "SpecialFeed"
                    /\ t = STORIES <=> v = "SpecialStories"
                    /\ t = SAVED <=> v = "SpecialSaved"
                    /\ (t # <<>> /\ t[1] \notin {"@", "#"} /\ t \notin Specials)
                          <=> (v = "AccountName" /\ n = t)

\* An existing .json.xz file whose name starts with '@' has been loaded as a
\* local descriptor, and another target that starts with '@' and names no
\* file has been taken for the followees of an account.
C5_Witness ==
    /\ Len(taken) = 2
    /\ taken[1].target = <<"@", "f">> \o JSON_XZ
    /\ taken[1].variant = "LocalDescriptorFile"
    /\ \E i \in Indices : calls[i].op = "load_structure_from_file"
    /\ taken[2].target = <<"@", "a">>
    /\ taken[2].variant = "AccountFollowees"
    /\ taken[2].name = <<"a">>

TargetVariants ==
    {"AccountFollowees", "Tag", "SpecialFeed", "SpecialStories", "SpecialSaved",
     "LocalDescriptorFile", "AccountName"}

\* C6 as stated: every target, the empty string and a string of separators
\* included, gets exactly one Target variant, no fault is raised in
\* classifying it, and equal strings get equal variants.
C6_Original ==
    /\ \A k \in DOMAIN taken : taken[k].variant \in TargetVariants
    /\ \A i \in Indices : ~(calls[i].op = "raise" /\ calls[i].res = "IndexError")
    /\ \A k, l \in DOMAIN taken :
         taken[k].target = taken[l].target =>
             taken[k].variant = taken[l].variant /\ taken[k].name = taken[l].name

-----------------------------------------------------------------------------
(* C7: what main() reports *)

\* C7 as stated: whatever exception leaves _main is reported as
\* "Fatal error: ..." and ends the process with a status that is not 0.
C7_Original ==
    (pc = "done" /\ exit.exc \notin {"", "SystemExit"}) =>
        exit.report = "Fatal error" /\ exit.code # 0

-----------------------------------------------------------------------------
(* C8: removed targets *)

OnlyLoginHint ==
    \A i \in Indices : calls[i] = Call(<<>>, "print_stderr", <<"--login required">>, "ok")

NothingStarted ==
    /\ OnlyLoginHint
    /\ taken = <<>>
    /\ errlog = <<>>
    /\ profiles = {}
    /\ ~is_logged_in
    /\ post_filter = NoFunc
    /\ storyitem_filter = NoFunc

\* C8: with :feed-all or :feed-liked anywhere in the target list, the run
\* ends in main's checks with a status that is not 0: no filter is compiled,
\* no session loaded, no login made, no target handled, no download made.
C8_RemovedTargets ==
    ContainsRemoved =>
        /\ pc \in {"main", "done"}
        /\ NothingStarted
        /\ pc = "done" => (exit.code # 0 /\ exit.exc = "SystemExit")

\* A run given a login name and a removed target after another target has
\* ended in main's checks.
C8_Witness ==
    /\ pc = "done"
    /\ exit.report = "targets removed"
    /\ username = "u"
    /\ Len(targetlist) = 2
    /\ targetlist[1] = <<"a">>
    /\ targetlist[2] = FEED_ALL

-----------------------------------------------------------------------------
(* C9: a filter that does not compile *)

\* C9: when the post filter or the storyitem filter does not compile, the
\* run ends before the session is loaded, before any login, before any target
\* is handled or downloaded and before the session is saved, with a status
\* that is not 0.
C9_FilterFaultIsFatal ==
    (Faulty(post_filter_str, "Post") \/ Faulty(storyitem_filter_str, "StoryItem")) =>
        /\ pc \in {"main", "post_filter", "storyitem_filter", "done"}
        /\ \A i \in Indices : calls[i].op \in {"print_stderr", "filterstr_to_filterfunc", "log"}
        /\ taken = <<>>
        /\ errlog = <<>>
        /\ profiles = {}
        /\ ~is_logged_in
        /\ pc = "done" => /\ exit.code # 0
                          /\ exit.exc \in {"SystemExit", "SyntaxError", "InvalidArgumentException"}

\* A run with a login name, a target, a post filter that compiles and a
\* storyitem filter that does not has ended on the latter.
C9_Witness ==
    /\ pc = "done"
    /\ username = "u"
    /\ targetlist # <<>>
    /\ post_filter # NoFunc
    /\ Faulty(storyitem_filter_str, "StoryItem")
    /\ exit.exc = "InvalidArgumentException"

-----------------------------------------------------------------------------
(* C10: the outcome of compiling a filter *)

Names == c_in.filter_str.names

Bound(k) == Names[k].ctx # "Load"

Unknown(k) ==
    /\ Names[k].ctx = "Load"
    /\ Names[k].id # "datetime"
    /\ ~hasattr(c_in.item_type, Names[k].id)

AssignmentFault(id) == Raised("InvalidArgumentException", "Modifying variables not allowed", id)
NameFault(id) == Raised("InvalidArgumentException", "not an attribute", id)

Rewritten ==
    [k \in DOMAIN Names |->
        IF Names[k].id = "datetime"
        THEN [node |-> "Name", id |-> "datetime"]
        ELSE [node |-> "Attribute", id |-> Names[k].id]]

\* C10 as stated: a filter in which some bare name is bound, assigned or
\* deleted fails with the assignment fault, 'x = 5' included; else one that
\* reads an unknown name fails with the name fault; else it compiles, every
\* name but datetime rewritten to an attribute of the item.
C10_Original ==
    pc = "compiled" =>
        IF \E k \in DOMAIN Names : Bound(k)
        THEN \E k \in DOMAIN Names : Bound(k) /\ c_out = AssignmentFault(Names[k].id)
        ELSE IF \E k \in DOMAIN Names : Unknown(k)
        THEN \E k \in DOMAIN Names : Unknown(k) /\ c_out = NameFault(Names[k].id)
        ELSE c_out = Compiled(Rewritten)

IsFirstOffender(k) ==
    /\ Bound(k) \/ Unknown(k)
    /\ \A l \in DOMAIN Names : l < k => ~(Bound(l) \/ Unknown(l))

\* C10, amended: text that is no expression, such as 'x = 5', fails with the
\* syntax fault (SyntaxError). For an expression, the first bare name, in the
\* order the names are visited, that is bound or is read without being an
\* attribute of the item type or datetime decides: if it is bound the
\* assignment fault is raised (before any lookup, so for datetime and for an
\* unknown name too), else the name fault; both are InvalidArgumentException
\* and differ in their message. Without such a name the filter compiles,
\* every name but datetime rewritten to an attribute of the item.
C10_CompileOutcome ==
    pc = "compiled" =>
        IF c_in.filter_str.kind # "expression"
        THEN c_out = Raised("SyntaxError", "invalid syntax", "")
        ELSE /\ \A k \in DOMAIN Names :
                  IsFirstOffender(k) =>
                      c_out = (IF Bound(k) THEN AssignmentFault(Names[k].id)
                               ELSE NameFault(Names[k].id))
             /\ (\A k \in DOMAIN Names : ~(Bound(k) \/ Unknown(k))) => c_out = Compiled(Rewritten)
             /\ \A id1, id2 \in Ids : AssignmentFault(id1) # NameFault(id2)
             /\ c_out.status # "SyntaxError"

\* An expression that reads an unknown name and then binds datetime has been
\* compiled.
C10_Witness ==
    /\ pc = "compiled"
    /\ c_in.filter_str.kind = "expression"
    /\ Len(Names) = 2
    /\ Unknown(1)
    /\ Bound(2)
    /\ Names[2].id = "datetime"
    /\ c_out = NameFault(Names[1].id)

-----------------------------------------------------------------------------
(* C11: a run without targets *)

\* What the run has written: the lines logged and those printed to stderr.
OutputLines == SelectSeq(calls, LAMBDA e : e.op \in {"log", "print_stderr"})

UsageLine == Log("usage:")
NothingDownloadedLine == Log("No targets were specified, thus nothing has been downloaded.")

\* A run without targets has gone through _main and ended.
EndedWithoutTargets == pc = "done" /\ exit.code = 0 /\ targetlist = <<>>

\* C11 as stated: a run without targets that is not logged in writes
\* nothing at all; one that is logged in logs exactly one line.
C11_Original ==
    EndedWithoutTargets =>
        IF is_logged_in THEN Len(OutputLines) = 1 ELSE OutputLines = <<>>

\* C11, amended: a run without targets ends by logging exactly one closing
\* line, as the last thing it does: the usage text when the session is not
\* logged in, and, after the session is saved, "No targets were specified,
\* thus nothing has been downloaded." when it is. A run with targets logs
\* neither.
C11_EmptyTargetReport ==
    pc = "done" /\ exit.code = 0 =>
        LET closing == SelectSeq(calls, LAMBDA e : e \in {UsageLine, NothingDownloadedLine})
        IN  IF targetlist # <<>>
            THEN closing = <<>>
            ELSE /\ closing = <<IF is_logged_in THEN NothingDownloadedLine ELSE UsageLine>>
                 /\ calls[Len(calls)] = closing[1]
                 /\ is_logged_in =>
                      /\ Len(calls) > 1
                      /\ calls[Len(calls) - 1].op = "save_session_to_file"
                      /\ Len(OutputLines) >= 2

\* A run without targets and without login has logged the usage text, and
\* nothing else.
C11_Witness ==
    /\ EndedWithoutTargets
    /\ username = "None"
    /\ calls = <<UsageLine>>

-----------------------------------------------------------------------------
(* C12: what the expansion of '@name' adds *)

\* The names given as bare account targets, and those given with '@'.
BareAccounts ==
    { classify(targetlist[k]).name :
        k \in { j \in DOMAIN targetlist : classify(targetlist[j]).variant = "AccountName" } }

Expansions == { k \in DOMAIN taken : taken[k].variant = "AccountFollowees" }

Downloaded(a) == \E i \in Indices : calls[i].op = "download_profile" /\ calls[i].arg = a

\* C12 as stated: the account named by a target '@name' is passed to
\* download_profile only if the name is a bare target of the list too.
C12_Original ==
    \A k \in Expansions : Downloaded(taken[k].name) => taken[k].name \in BareAccounts

\* C12, amended: the expansion of '@name' adds the followees it is given and
\* not name itself, so that an account is passed to download_profile only
\* if it is a bare target of the list or one of the followees returned by
\* the expansion of some '@' target; this holds for name too, which is
\* downloaded when the expansion of another '@' target returns it.
C12_FolloweeExpansion ==
    LET bare == BareAccounts
        downloaded == { calls[i].arg : i \in { j \in Indices : calls[j].op = "download_profile" } }
    IN  /\ \A k \in Expansions : taken[k].name \notin taken[k].added
        /\ \A k \in DOMAIN taken :
               taken[k].variant \notin {"AccountFollowees", "AccountName"} => taken[k].added = {}
        /\ profiles = UNION { taken[k].added : k \in DOMAIN taken }
        /\ \A a \in downloaded :
               \/ a \in bare
               \/ \E k \in Expansions : a \in taken[k].added

\* '@a' and '@b' were expanded, b's followees named a, and a was downloaded
\* without being a bare target.
C12_Witness ==
    /\ pc = "done"
    /\ targetlist = << <<"@", "a">>, <<"@", "b">> >>
    /\ Len(taken) = 2
    /\ taken[1].added = {}
    /\ taken[2].added = { <<"a">> }
    /\ Downloaded(<<"a">>)

-----------------------------------------------------------------------------
(* C13: saved structures that are neither a Post nor a StoryItem *)

\* load_structure_from_file has returned a Profile or a structure of a
\* class other than Post and StoryItem.
LoadedUnsupported(i) ==
    calls[i].op = "load_structure_from_file" /\ calls[i].res \notin {"Post", "StoryItem"}
                                             /\ calls[i].res \in Structures

LocalOps == {"post_filter", "storyitem_filter", "download_post", "download_storyitem"}

\* C13: a saved structure that is a Profile, or of any class other than Post
\* and StoryItem, is rejected: the next thing that happens is the
\* InvalidArgumentException (for a Profile with the message that tells which
\* name to pass), no filter is asked and no download made for it, the fault
\* is recorded under the target's name, and the loop goes on with the next
\* target.
C13_UnsupportedStructure ==
    \A i \in Indices :
        LoadedUnsupported(i) =>
            /\ i < Len(calls)
            /\ calls[i + 1] = Call(calls[i].target, "raise", <<rejection_message(calls[i].res)>>,
                                   "InvalidArgumentException")
            /\ i + 2 <= Len(calls) => calls[i + 2].op \notin LocalOps
            /\ LET n == Len(ExpectedRecords(SubSeq(calls, 1, i + 1)))
               IN  /\ n \in DOMAIN errlog
                   /\ errlog[n] = ErrorRecord(<<calls[i].target>>, "InvalidArgumentException")
            /\ i + 1 = Len(calls) =>
                  /\ pc \in {"targets", "profiles", "save", "done"}
                  /\ exit.exc = ""
                  /\ idx = Len(taken) + 1

\* A saved Profile was rejected and recorded, and the target after it was
\* handled: it became a profile that was downloaded.
C13_Witness ==
    /\ pc = "done"
    /\ Len(targetlist) = 2
    /\ Len(errlog) = 1
    /\ errlog[1] = ErrorRecord(<<targetlist[1]>>, "InvalidArgumentException")
    /\ \E i \in Indices : calls[i].op = "load_structure_from_file" /\ calls[i].res = "Profile"
    /\ \E i \in Indices : calls[i].op = "download_profile" /\ calls[i].res = "ok"

-----------------------------------------------------------------------------
(* C14: loading the session and logging in *)

\* The calls of the login step, in order.
LoginCalls == SelectSeq(calls, LAMBDA e : e.op \in LoginOps)

LoginKinds == {"login", "interactive_login"}

\* After loading, the session is not logged in or is somebody else's.
NeedsLogin(L) ==
    /\ Len(L) >= 1
    /\ \/ L[1].res = "FileNotFoundError"
       \/ Len(L) >= 2 /\ L[2].op = "test_login" /\ L[2].res # username

\* C14: without a login name there is no load, no test_login and no login.
\* With one, load_session_from_file comes first; a missing file leaves the
\* session not logged in; test_login is asked exactly of a session that the
\* load left logged in; login or interactive_login is called if and only if
\* the session is not logged in after loading or test_login names another
\* user, login if a password was given and interactive_login if not.
C14_LoadOrLogin ==
    LET L == LoginCalls
    IN  /\ username = "None" => L = <<>>
        /\ Len(L) <= 3
        /\ Len(L) >= 1 =>
              /\ L[1] = Call(<<>>, "load_session_from_file", <<username>>, L[1].res)
              /\ (L[1].res = "FileNotFoundError" /\ Len(L) = 1) => ~is_logged_in
              /\ L[1].res = "ok" => (Len(L) >= 2 \/ pc = "login_check")
              /\ L[1].res = "PermissionError" => (Len(L) = 1 /\ pc = "done" /\ exit.code # 0)
        /\ Len(L) >= 2 =>
              /\ L[2].op = "test_login" <=> L[1].res = "ok"
              /\ L[2].op \in LoginKinds <=> L[1].res = "FileNotFoundError"
        /\ Len(L) = 3 => L[3].op \in LoginKinds
        /\ \A k \in DOMAIN L :
              L[k].op \in LoginKinds =>
                  /\ NeedsLogin(SubSeq(L, 1, k - 1))
                  /\ k = Len(L)
                  /\ L[k].op = (IF password # "None" THEN "login" ELSE "interactive_login")
                  /\ L[k].arg = <<username>>
        /\ NeedsLogin(L) => (L[Len(L)].op \in LoginKinds \/ pc \in {"login_check", "login_do"})
        /\ pc \in {"targets", "profiles", "anonymous", "save"} =>
              is_logged_in = (username # "None")

\* A session was loaded, test_login named another user, and the login was
\* then made interactively, no password having been given.
C14_Witness ==
    /\ pc = "targets"
    /\ password = "None"
    /\ Len(LoginCalls) = 3
    /\ LoginCalls[1].res = "ok"
    /\ LoginCalls[2] = Call(<<>>, "test_login", <<>>, "other")
    /\ LoginCalls[3] = Call(<<>>, "interactive_login", <<username>>, "ok")

-----------------------------------------------------------------------------
(* C15: saved Posts and StoryItems, and the filters *)

\* The filter and the download of each class of structure.
FilterOf(structure) == IF structure = "Post" THEN post_filter ELSE storyitem_filter
FilterOp(structure) == IF structure = "Post" THEN "post_filter" ELSE "storyitem_filter"
DownloadOp(structure) == IF structure = "Post" THEN "download_post" ELSE "download_storyitem"

\* The filter has been asked at position i and has rejected the structure.
Rejected(i) == calls[i].op \in {"post_filter", "storyitem_filter"} /\ calls[i].res = "False"

\* C15: a saved Post is passed to download_post if and only if there is no
\* post filter or the post filter accepts it, a saved StoryItem to
\* download_storyitem if and only if there is no storyitem filter or the
\* storyitem filter accepts it; each filter is asked about its own class
\* only; a rejected structure is not downloaded and leaves no error record,
\* and the loop goes on with the next target.
C15_FilteredDispatch ==
    \A i \in Indices :
        (calls[i].op = "load_structure_from_file" /\ calls[i].res \in {"Post", "StoryItem"}) =>
            LET structure == calls[i].res
                target == calls[i].target
                next == calls[i + 1]
            IN  /\ i < Len(calls)
                /\ next.target = target
                /\ IF FilterOf(structure) = NoFunc
                   THEN next.op = DownloadOp(structure) /\ next.arg = target
                   ELSE /\ next.op = FilterOp(structure)
                        /\ next.arg = target
                        /\ next.res \in {"True", "False"}
                        /\ next.res = "True" =>
                              /\ i + 2 <= Len(calls)
                              /\ calls[i + 2].op = DownloadOp(structure)
                              /\ calls[i + 2].target = target
                        /\ next.res = "False" =>
                              /\ i + 2 <= Len(calls) => calls[i + 2].op \notin LocalOps
                              /\ Len(errlog) >= Len(ExpectedRecords(SubSeq(calls, 1, i - 1)))
                              /\ i + 1 = Len(calls) =>
                                    /\ errlog = ExpectedRecords(SubSeq(calls, 1, i - 1))
                                    /\ exit.exc = ""
                                    /\ idx = Len(taken) + 1
                                    /\ pc \in {"targets", "profiles", "save", "done"}

\* With a post filter and no storyitem filter, a saved Post was rejected by
\* the post filter: it was not downloaded, nothing was recorded, and the
\* target after it was handled and downloaded.
C15_Witness ==
    /\ pc = "done"
    /\ post_filter # NoFunc
    /\ storyitem_filter = NoFunc
    /\ Len(targetlist) = 2
    /\ errlog = <<>>
    /\ \E i \in Indices :
         /\ i + 2 <= Len(calls)
         /\ calls[i].op = "load_structure_from_file" /\ calls[i].res = "Post"
         /\ Rejected(i + 1)
         /\ calls[i + 2] = Call(<<"a">>, "download_profile", <<"a">>, "ok")
    /\ \A i \in Indices : calls[i].op # "download_post"

-----------------------------------------------------------------------------
(* C16: the two loops *)

\* What is called while a target of the list is handled.
TargetOps ==
    {"load_structure_from_file", "post_filter", "storyitem_filter", "download_post",
     "download_storyitem", "Profile.from_username", "get_followees", "download_hashtag",
     "download_feed_posts", "download_stories", "download_saved_posts", "raise"}

\* C16: when a profile is downloaded, the loop over the target list is over:
\* every target of the list has been handled, whatever its place in the
\* list, and no target is handled after the first profile download.
C16_TwoPhases ==
    \A i \in Indices :
        calls[i].op \in ProfileOps =>
            /\ Len(taken) = Len(targetlist)
            /\ idx = Len(targetlist) + 1
            /\ \A k \in DOMAIN targetlist : taken[k].target = targetlist[k]
            /\ \A j \in Indices : calls[j].op \in TargetOps => j < i

\* The list names a profile and then a hashtag: the hashtag was downloaded
\* before the profile.
C16_Witness ==
    /\ targetlist = << <<"a">>, <<"#", "t">> >>
    /\ \E i, j \in Indices :
         /\ i < j
         /\ calls[i].op = "download_hashtag"
         /\ calls[j] = Call(<<"a">>, "download_profile", <<"a">>, "ok")

-----------------------------------------------------------------------------
(* C17: an interrupt in the loop over the target list *)

InterruptedTarget(i) == calls[i].op \in TargetOps /\ calls[i].res = "KeyboardInterrupt"

SaveCall == Call(<<>>, "save_session_to_file", <<>>, "ok")

\* C17: once the handling of a target is interrupted, no further target is
\* handled and no profile is downloaded, those gathered so far included;
\* the run goes on as one that was not interrupted does: the session is
\* saved if logged in, the check for an empty target list is made (the list
\* is not empty, so nothing is logged), and the process ends with status 0.
C17_InterruptInTargets ==
    \A i \in Indices :
        InterruptedTarget(i) =>
            /\ pc \in {"save", "done"}
            /\ Len(taken) = idx
            /\ \A j \in Indices : calls[j].op \notin ProfileOps
            /\ calls[i + 1] = Interrupted
            /\ errlog = ExpectedRecords(SubSeq(calls, 1, i))
            /\ pc = "save" => Len(calls) = i + 1
            /\ pc = "done" =>
                  /\ SubSeq(calls, i + 2, Len(calls)) = (IF is_logged_in THEN <<SaveCall>> ELSE <<>>)
                  /\ exit = [code |-> 0, report |-> "none", exc |-> ""]

\* A logged-in run gathered a profile from its first target and was
\* interrupted in the second: the profile was not downloaded, the session
\* was saved.
C17_Witness ==
    /\ pc = "done"
    /\ is_logged_in
    /\ Len(targetlist) = 2
    /\ profiles = { <<"a">> }
    /\ \E i \in Indices : InterruptedTarget(i)
    /\ \A j \in Indices : calls[j].op \notin ProfileOps
    /\ calls[Len(calls)] = SaveCall

-----------------------------------------------------------------------------
(* C18: each profile once *)

\* How many times download_profile was called for the account, whatever the
\* trailing separators of the name it was given.
DownloadCount(a) ==
    Cardinality({i \in Indices : calls[i].op = "download_profile" /\ rstrip(calls[i].arg) = a})

\* How many targets of the list have named the account, and how many
\* expansions have returned it.
NamedBy(a) ==
    { k \in DOMAIN taken : taken[k].variant = "AccountName" /\ rstrip(taken[k].target) = a }
ReturnedBy(a) == { k \in Expansions : a \in taken[k].added }

\* C18: download_profile is called at most once for an account, however
\* many bare targets name it, with or without trailing separators, and
\* however many expansions return it.
C18_Deduplication ==
    LET downloads == { i \in Indices : calls[i].op = "download_profile" }
    IN  /\ \A i, j \in downloads : i # j => rstrip(calls[i].arg) # rstrip(calls[j].arg)
        /\ \A i \in downloads :
               NamedBy(calls[i].arg) # {} \/ ReturnedBy(calls[i].arg) # {}

\* 'a' and 'a/' were both given, and the profile a was downloaded once.
C18_Witness ==
    /\ pc = "done"
    /\ targetlist = << <<"a">>, <<"a", "/">> >>
    /\ Cardinality(NamedBy(<<"a">>)) = 2
    /\ DownloadCount(<<"a">>) = 1

-----------------------------------------------------------------------------
(* C19: the record of a failed anonymous retry *)

\* The anonymous retry at position i of the history, which follows the
\* logged-in attempt at position i - 1.
IsRetry(i) == calls[i].op = "anonymous.download_profile"

\* How many error records there are once the first n calls were made.
RecordsAfter(n) == Len(ExpectedRecords(SubSeq(calls, 1, n)))

\* C19 as stated: a retry that fails with an InstaloaderException leaves
\* exactly one error record, which names the account, and the loop goes on;
\* a retry that succeeds leaves none.
C19_Original ==
    \A i \in Indices :
        IsRetry(i) =>
            IF calls[i].res \in InstaloaderExceptions
            THEN /\ RecordsAfter(i) = RecordsAfter(i - 2) + 1
                 /\ RecordsAfter(i) \in DOMAIN errlog
                 /\ errlog[RecordsAfter(i)] = ErrorRecord(<<calls[i].arg>>, calls[i].res)
                 /\ pc \in {"profiles", "anonymous", "save", "done"}
                 /\ exit.exc = ""
            ELSE RecordsAfter(i) = RecordsAfter(i - 2)

-----------------------------------------------------------------------------
(* C20: the session of the run and the anonymous copy *)

\* C20: after an anonymous retry the session of the run is still logged in,
\* and as the same user, no login step being made after the startup; a
\* profile handled after the retry is first downloaded with the loader of
\* the run; and the session is saved once at the end of the run.
C20_SessionUnchanged ==
    \A i \in Indices :
        IsRetry(i) =>
            /\ is_logged_in
            /\ \A j \in Indices : calls[j].op \in LoginOps => j < i
            /\ LoginCalls[Len(LoginCalls)].res \in {"ok", username}
            /\ (i < Len(calls) /\ calls[i + 1].op \in ProfileOps) =>
                   /\ calls[i + 1].op = "download_profile"
                   /\ calls[i + 1].arg # calls[i].arg
            /\ pc = "done" /\ exit.exc = "" =>
                   /\ SaveCount = 1
                   /\ \E j \in Indices : j > i /\ calls[j] = SaveCall

\* A logged-in run retried its first profile anonymously, downloaded its
\* second profile with its own loader, and saved the session.
C20_Witness ==
    /\ pc = "done"
    /\ is_logged_in
    /\ \E i \in Indices :
         /\ i + 2 <= Len(calls)
         /\ IsRetry(i)
         /\ calls[i + 1].op = "download_profile"
         /\ calls[i + 1].res = "ok"
         /\ calls[i + 2] = SaveCall

-----------------------------------------------------------------------------
(* C21: what the anonymous retry is given *)

AnonymousGiven == { k \in DOMAIN given : given[k].op = "anonymous.download_profile" }

ReusedParameters == {"profile_pic", "profile_pic_only", "fast_update", "post_filter"}

-----------------------------------------------------------------------------
(* C22: a login step that fails *)

\* The call at index i is a step of the login that raised: loading the
\* session raised something other than FileNotFoundError, or login or
\* interactive_login raised.
LoginFault(i) ==
    \/ calls[i].op = "load_session_from_file" /\ calls[i].res \notin {"ok", "FileNotFoundError"}
    \/ calls[i].op \in LoginKinds /\ calls[i].res # "ok"

\* What a failed login step leaves behind, whatever main() makes of the
\* exception: the run has ended with it, the failed call being the last
\* thing that happened, with a status that is not 0 and with no target
\* handled, no download made and no session saved.
LoginFaultEscapes ==
    \A i \in Indices :
        LoginFault(i) =>
            /\ pc = "done"
            /\ i = Len(calls)
            /\ exit.exc = calls[i].res
            /\ exit.code # 0
            /\ taken = <<>> /\ idx = 1 /\ profiles = {} /\ given = <<>>
            /\ \A j \in Indices : calls[j].op \notin TargetOps \cup DownloadOps
            /\ SaveCount = 0

\* C22 as stated: when a step of the login fails, the fault leaves _main
\* before the loop over the targets: no target is classified, nothing is
\* downloaded, no session is saved, and main() reports a fatal error and
\* ends with a status that is not 0.
C22_Original ==
    \A i \in Indices :
        LoginFault(i) =>
            /\ pc = "done"
            /\ taken = <<>>
            /\ \A j \in Indices : calls[j].op \notin TargetOps \cup DownloadOps
            /\ SaveCount = 0
            /\ exit.report = "Fatal error"
            /\ exit.code # 0


====
